---- MODULE Spec2Model ----
(***************************************************************************)
(* Model of the streaming quality manager                                  *)
(* (src/modules/streaming_quality/functions/quality_manager.py).           *)
(*                                                                         *)
(* One user is modelled: every store item of the module lives under a      *)
(* partition key that contains the user_id, so users never interact.       *)
(* Numbers with a fractional part are kept in fixed point: buffer_ratio in *)
(* units of 1/10000 and the performance score in units of 1/100.           *)
(***************************************************************************)
EXTENDS Integers, Sequences, FiniteSets, Bags, TLC

VARIABLES
    subscription_tier,  \* event['subscription_tier'] the caller sends for the user,
                        \* Absent when the event has no such key
    clock,              \* datetime.now(), in whole seconds
    sessions,           \* items under pk ACTIVE_SESSIONS#<user>, keyed by session_id
    inflight,           \* bag of the validate_stream_access invocations that have passed
                        \* the checks and not yet recorded their session: their locals
    samples,            \* items under pk VIEWER_METRICS#<user>, keyed by stream and timestamp
    results,            \* items under pk OPTIMIZATION#<user>, keyed by timestamp
    pending,            \* the update_viewer_metrics invocation that has written its
                        \* sample and not yet run its optimization: its locals
    response,           \* the response returned by the invocation that completed last
    fn                  \* call and result of a pure function under evaluation

vars == <<subscription_tier, clock, sessions, inflight, samples, results, pending,
          response, fn>>

(***************************************************************************)
(* The tier table                                                          *)
(***************************************************************************)
\* a variant of QUALITY_TIERS: the gold ladder lists 1080p before 720p
QUALITY_TIERS_GoldUnsorted ==
    [bronze   |-> [max_resolution |-> "480p", max_bitrate |-> 1000000,
                   allowed_qualities |-> <<"480p">>,
                   concurrent_streams |-> 1],
     silver   |-> [max_resolution |-> "720p", max_bitrate |-> 2500000,
                   allowed_qualities |-> <<"480p", "720p">>,
                   concurrent_streams |-> 2],
     gold     |-> [max_resolution |-> "1080p", max_bitrate |-> 5000000,
                   allowed_qualities |-> <<"480p", "1080p", "720p">>,
                   concurrent_streams |-> 3],
     platinum |-> [max_resolution |-> "1080p", max_bitrate |-> 8000000,
                   allowed_qualities |-> <<"480p", "720p", "1080p">>,
                   concurrent_streams |-> 5,
                   priority_access |-> TRUE]]

QUALITY_TIERS ==
    [bronze   |-> [max_resolution |-> "480p", max_bitrate |-> 1000000,
                   allowed_qualities |-> <<"480p">>,
                   concurrent_streams |-> 1],
     silver   |-> [max_resolution |-> "720p", max_bitrate |-> 2500000,
                   allowed_qualities |-> <<"480p", "720p">>,
                   concurrent_streams |-> 2],
     gold     |-> [max_resolution |-> "1080p", max_bitrate |-> 5000000,
                   allowed_qualities |-> <<"480p", "720p", "1080p">>,
                   concurrent_streams |-> 3],
     platinum |-> [max_resolution |-> "1080p", max_bitrate |-> 8000000,
                   allowed_qualities |-> <<"480p", "720p", "1080p">>,
                   concurrent_streams |-> 5,
                   priority_access |-> TRUE]]

TierNames == DOMAIN QUALITY_TIERS

\* a variant of TierConfig: an unknown tier is given the silver policy
TierConfig_FallbackSilver(tier) ==
    IF tier \in TierNames THEN QUALITY_TIERS[tier] ELSE QUALITY_TIERS["silver"]

\* QUALITY_TIERS.get(subscription_tier, QUALITY_TIERS['bronze'])
TierConfig(tier) ==
    IF tier \in TierNames THEN QUALITY_TIERS[tier] ELSE QUALITY_TIERS["bronze"]

Range(seq) == {seq[i] : i \in DOMAIN seq}

\* the Python test  x in list
InList(x, seq) == x \in Range(seq)

(***************************************************************************)
(* Bounds of the model                                                     *)
(***************************************************************************)
\* invocations of validate_stream_access that may be in flight together
NumInvocations == 3

\* stream ids the client asks for
Streams == {"s1", "s2"}

\* the seconds at which the system is observed: the same second, the next
\* one, and the first second after a session recorded at 0 has expired
Instants == {0, 1, 86401}

\* requested_quality values of the event: the lowest rung (named, or by
\* default when the key is Absent), every rung outside the tier's ladder and
\* a quality no tier knows. The quality stored in a session takes no part
\* in any decision, so one admitted quality is enough.
Absent == "<absent>"
RequestedQualities(tier_config) ==
    {Absent, "480p", "4k"}
        \cup ({"720p", "1080p"} \ Range(tier_config.allowed_qualities))

\* subscription_tier values of the event; "vip" is not a key of QUALITY_TIERS
\* and Absent is an event without the key
EventTiers == {"bronze", "silver", "gold", "platinum", "vip", Absent}

(***************************************************************************)
(* Helpers of the entry points                                             *)
(***************************************************************************)
\* dict.get(key, default) on the event
EventGet(value, default) == IF value = Absent THEN default ELSE value

\* an event without the key of a dict-valued field, and event.get on it
AbsentDict == [absent |-> TRUE]
EventGetDict(value, default) == IF value = AbsentDict THEN default ELSE value

\* event.get('subscription_tier', 'bronze')
EventTier == EventGet(subscription_tier, "bronze")

create_response(status_code, body) == [statusCode |-> status_code, body |-> body]

NoResponse == [statusCode |-> 0]

get_max_session_duration(tier) ==
    CASE tier = "bronze" -> 3600
      [] tier = "silver" -> 7200
      [] tier = "gold" -> 14400
      [] tier = "platinum" -> 28800
      [] OTHER -> 3600

get_buffer_size(tier) ==
    CASE tier = "bronze" -> 10
      [] tier = "silver" -> 15
      [] tier = "gold" -> 20
      [] tier = "platinum" -> 30
      [] OTHER -> 10

(***************************************************************************)
(* Session registry                                                        *)
(***************************************************************************)
\* f"{user_id}_{stream_id}_{int(datetime.now().timestamp())}" for the one user
SessionId(stream_id, now) == <<stream_id, now>>

\* the item record_stream_access puts
SessionItem(stream_id, quality, tier, now) ==
    [stream_id |-> stream_id, quality |-> quality, subscription_tier |-> tier,
     start_time |-> now, ttl |-> now + 86400]

\* put_item: an item with the same key is replaced
PutItem(table, key, item) ==
    [k \in DOMAIN table \cup {key} |-> IF k = key THEN item ELSE table[k]]

\* the query of get_user_streaming_sessions; a failed query is caught and
\* answered with the empty list
get_user_streaming_sessions(store_ok) ==
    IF store_ok
    THEN {[session_id |-> k, stream_id |-> sessions[k].stream_id,
           quality |-> sessions[k].quality,
           start_time |-> sessions[k].start_time] : k \in DOMAIN sessions}
    ELSE {}

\* record_stream_access; a failed put_item is caught and only logged
record_stream_access(stream_id, quality, tier, store_ok) ==
    IF store_ok
    THEN PutItem(sessions, SessionId(stream_id, clock),
                 SessionItem(stream_id, quality, tier, clock))
    ELSE sessions

(***************************************************************************)
(* validate_stream_access                                                  *)
(***************************************************************************)
\* the locals of an invocation between its checks and its put_item
Frame(stream_id, requested_quality) ==
    [stream_id |-> stream_id, requested_quality |-> requested_quality]

QualityAllowed(requested_quality, tier_config) ==
    InList(requested_quality, tier_config.allowed_qualities)

\* a variant of LimitReached: the comparison is strict
LimitReached_Strict(current_sessions, tier_config) ==
    Cardinality(current_sessions) > tier_config.concurrent_streams

LimitReached(current_sessions, tier_config) ==
    Cardinality(current_sessions) >= tier_config.concurrent_streams

QualityNotAllowedResponse(requested_quality, tier_config, tier) ==
    create_response(403,
        [error |-> "Quality not allowed for subscription tier",
         requested_quality |-> requested_quality,
         allowed_qualities |-> tier_config.allowed_qualities,
         subscription_tier |-> tier,
         upgrade_required |-> TRUE])

\* the body's active_sessions list is left out: its length is current_sessions
LimitExceededResponse(current_sessions, tier_config) ==
    create_response(429,
        [error |-> "Concurrent stream limit exceeded",
         current_sessions |-> Cardinality(current_sessions),
         limit |-> tier_config.concurrent_streams])

AccessGrantedResponse(requested_quality, stream_id, tier) ==
    create_response(200,
        [access_granted |-> TRUE,
         quality |-> requested_quality,
         stream_id |-> stream_id,
         session_info |-> [max_duration |-> get_max_session_duration(tier),
                           buffer_size |-> get_buffer_size(tier),
                           adaptive_enabled |-> TRUE]])

\* a variant of ValidateCheck: the limit is checked before the quality
ValidateCheck_LimitFirst(stream_id, quality_arg, store_ok) ==
    /\ BagCardinality(inflight) < NumInvocations
    /\ LET requested_quality == EventGet(quality_arg, "480p")
           tier_config == TierConfig(EventTier)
           current_sessions == get_user_streaming_sessions(store_ok)
       IN  IF LimitReached(current_sessions, tier_config)
           THEN /\ response' = LimitExceededResponse(current_sessions, tier_config)
                /\ UNCHANGED inflight
           ELSE IF ~QualityAllowed(requested_quality, tier_config)
           THEN /\ response' = QualityNotAllowedResponse(requested_quality,
                                    tier_config, EventTier)
                /\ UNCHANGED inflight
           ELSE /\ inflight' = inflight (+) SetToBag({Frame(stream_id, requested_quality)})
                /\ UNCHANGED response
    /\ UNCHANGED <<subscription_tier, clock, sessions, samples, results, pending, fn>>

\* lines 127-152: the quality check, the read of the active sessions and the
\* limit check; an admitted request goes on to record its session
ValidateCheck(stream_id, quality_arg, store_ok) ==
    /\ BagCardinality(inflight) < NumInvocations
    /\ LET requested_quality == EventGet(quality_arg, "480p")
           tier_config == TierConfig(EventTier)
           current_sessions == get_user_streaming_sessions(store_ok)
       IN  IF ~QualityAllowed(requested_quality, tier_config)
           THEN /\ response' = QualityNotAllowedResponse(requested_quality,
                                    tier_config, EventTier)
                /\ UNCHANGED inflight
           ELSE IF LimitReached(current_sessions, tier_config)
           THEN /\ response' = LimitExceededResponse(current_sessions, tier_config)
                /\ UNCHANGED inflight
           ELSE /\ inflight' = inflight (+) SetToBag({Frame(stream_id, requested_quality)})
                /\ UNCHANGED response
    /\ UNCHANGED <<subscription_tier, clock, sessions, samples, results, pending, fn>>

\* lines 154-166: record the session and answer
ValidateRecord(f, store_ok) ==
    /\ BagIn(f, inflight)
    /\ sessions' = record_stream_access(f.stream_id, f.requested_quality,
                                        EventTier, store_ok)
    /\ response' = AccessGrantedResponse(f.requested_quality, f.stream_id,
                                         EventTier)
    /\ inflight' = inflight (-) SetToBag({f})
    /\ UNCHANGED <<subscription_tier, clock, samples, results, pending, fn>>

(***************************************************************************)
(* Quality decision engine                                                 *)
(***************************************************************************)
Min(a, b) == IF a < b THEN a ELSE b
Max(a, b) == IF a > b THEN a ELSE b

\* dict.get(key, default) on a metrics or network-conditions dict; a dict is
\* a function whose domain holds the keys that are present
DictGet(dict, key, default) == IF key \in DOMAIN dict THEN dict[key] ELSE default

\* list.index(x) for x in the list, counted from 1
ListIndex(seq, x) ==
    CHOOSE k \in DOMAIN seq : seq[k] = x /\ \A j \in 1..(k - 1) : seq[j] # x

\* quality_bitrates.get(quality, 1000000)
quality_bitrates(quality) ==
    CASE quality = "480p" -> 1000000
      [] quality = "720p" -> 2500000
      [] quality = "1080p" -> 5000000
      [] OTHER -> 1000000

\* a variant of buffer_multiplier: 1.2 for unstable and 1.5 for moderate
buffer_multiplier_Swapped(stability) ==
    IF stability = "unstable" THEN 12
    ELSE IF stability = "moderate" THEN 15 ELSE 11

\* buffer_multiplier, in tenths: 1.5, 1.2, 1.1
buffer_multiplier(stability) ==
    IF stability = "unstable" THEN 15
    ELSE IF stability = "moderate" THEN 12 ELSE 11

\* the loop over reversed(allowed_qualities) from rung k down, with its break
RECURSIVE WalkDown(_, _, _, _)
WalkDown(allowed, k, bandwidth, stability) ==
    IF k = 0 THEN "480p"
    ELSE IF bandwidth * 10 >= quality_bitrates(allowed[k]) * buffer_multiplier(stability)
    THEN allowed[k]
    ELSE WalkDown(allowed, k - 1, bandwidth, stability)

\* a variant of get_recommended_quality: the ladder is walked from its lowest
\* rung and the first rung that fits is taken
RECURSIVE WalkUp(_, _, _, _)
WalkUp(allowed, k, bandwidth, stability) ==
    IF k > Len(allowed) THEN "480p"
    ELSE IF bandwidth * 10 >= quality_bitrates(allowed[k]) * buffer_multiplier(stability)
    THEN allowed[k]
    ELSE WalkUp(allowed, k + 1, bandwidth, stability)

get_recommended_quality_Ascending(tier_config, network_conditions) ==
    LET bandwidth == DictGet(network_conditions, "bandwidth_estimate", 1000000)
        stability == DictGet(network_conditions, "stability", "unknown")
    IN  WalkUp(tier_config.allowed_qualities, 1, bandwidth, stability)

get_recommended_quality(tier_config, network_conditions) ==
    LET bandwidth == DictGet(network_conditions, "bandwidth_estimate", 1000000)
        stability == DictGet(network_conditions, "stability", "unknown")
    IN  WalkDown(tier_config.allowed_qualities,
                 Len(tier_config.allowed_qualities), bandwidth, stability)

\* a variant of should_trigger_optimization: three rebuffers already trigger
should_trigger_optimization_Inclusive(metrics) ==
    LET buffer_ratio == DictGet(metrics, "buffer_ratio", 0)
        rebuffer_count == DictGet(metrics, "rebuffer_count", 0)
        startup_time == DictGet(metrics, "startup_time", 0)
    IN  \/ buffer_ratio > 2000
        \/ rebuffer_count >= 3
        \/ startup_time > 5000

\* buffer_ratio is in units of 1/10000: 0.2 is 2000
should_trigger_optimization(metrics) ==
    LET buffer_ratio == DictGet(metrics, "buffer_ratio", 0)
        rebuffer_count == DictGet(metrics, "rebuffer_count", 0)
        startup_time == DictGet(metrics, "startup_time", 0)
    IN  \/ buffer_ratio > 2000
        \/ rebuffer_count > 3
        \/ startup_time > 5000

\* a variant of PerformanceScore: the penalties are not capped
PerformanceScore_Uncapped(buffer_ratio, rebuffer_count, startup_time, quality_switches) ==
    Max(0, 10000 - buffer_ratio - rebuffer_count * 500
                 - startup_time - quality_switches * 200)

\* a variant of PerformanceScore: a rebuffer costs 10 points instead of 5
PerformanceScore_RebufferTen(buffer_ratio, rebuffer_count, startup_time, quality_switches) ==
    Max(0, 10000 - Min(buffer_ratio, 3000)
                 - Min(rebuffer_count * 1000, 2000)
                 - Min(startup_time, 2000)
                 - Min(quality_switches * 200, 1000))

\* the score is in units of 1/100: buffer_ratio * 100 is the buffer_ratio
\* in 1/10000 read as hundredths, startup_time / 100 is startup_time
\* hundredths
PerformanceScore(buffer_ratio, rebuffer_count, startup_time, quality_switches) ==
    Max(0, 10000 - Min(buffer_ratio, 3000)
                 - Min(rebuffer_count * 500, 2000)
                 - Min(startup_time, 2000)
                 - Min(quality_switches * 200, 1000))

analyze_streaming_performance(current_metrics) ==
    LET buffer_ratio == DictGet(current_metrics, "buffer_ratio", 0)
        rebuffer_count == DictGet(current_metrics, "rebuffer_count", 0)
        startup_time == DictGet(current_metrics, "startup_time", 0)
        quality_switches == DictGet(current_metrics, "quality_switches", 0)
    IN  [score |-> PerformanceScore(buffer_ratio, rebuffer_count,
                                    startup_time, quality_switches),
         recommendations |->
             (IF buffer_ratio > 1500
              THEN <<"Reduce quality to improve buffering">> ELSE <<>>)
             \o (IF startup_time > 3000
                 THEN <<"Use lower startup quality for faster playback">> ELSE <<>>)
             \o (IF quality_switches > 5
                 THEN <<"Increase switching threshold to reduce oscillation">> ELSE <<>>)
             \o (IF rebuffer_count > 2
                 THEN <<"Consider adaptive buffer sizing">> ELSE <<>>),
         buffer_health |-> IF buffer_ratio < 1000 THEN "good" ELSE "poor",
         startup_health |-> IF startup_time < 2000 THEN "good" ELSE "poor",
         stability |-> IF quality_switches < 3 THEN "good" ELSE "poor"]

\* list.index raises ValueError for a quality that is not in the list
ValueError == "<ValueError>"

\* a variant of determine_optimal_quality: a score of exactly 80 steps up
determine_optimal_quality_StepsAt80(tier_config, performance, metrics) ==
    LET current_quality == DictGet(metrics, "current_quality", "480p")
        allowed_qualities == tier_config.allowed_qualities
        last == Len(allowed_qualities)
    IN  IF performance.score >= 8000 /\ current_quality # allowed_qualities[last]
        THEN IF ~InList(current_quality, allowed_qualities) THEN ValueError
             ELSE LET current_index == ListIndex(allowed_qualities, current_quality)
                  IN  IF current_index < last
                      THEN allowed_qualities[current_index + 1]
                      ELSE current_quality
        ELSE IF performance.score < 6000 /\ current_quality # allowed_qualities[1]
        THEN IF ~InList(current_quality, allowed_qualities) THEN ValueError
             ELSE LET current_index == ListIndex(allowed_qualities, current_quality)
                  IN  IF current_index > 1
                      THEN allowed_qualities[current_index - 1]
                      ELSE current_quality
        ELSE current_quality

\* a variant of determine_optimal_quality: poor performance drops to the
\* lowest rung at once
determine_optimal_quality_DropsToLowest(tier_config, performance, metrics) ==
    LET current_quality == DictGet(metrics, "current_quality", "480p")
        allowed_qualities == tier_config.allowed_qualities
        last == Len(allowed_qualities)
    IN  IF performance.score > 8000 /\ current_quality # allowed_qualities[last]
        THEN IF ~InList(current_quality, allowed_qualities) THEN ValueError
             ELSE LET current_index == ListIndex(allowed_qualities, current_quality)
                  IN  IF current_index < last
                      THEN allowed_qualities[current_index + 1]
                      ELSE current_quality
        ELSE IF performance.score < 6000 /\ current_quality # allowed_qualities[1]
        THEN IF ~InList(current_quality, allowed_qualities) THEN ValueError
             ELSE allowed_qualities[1]
        ELSE current_quality

determine_optimal_quality(tier_config, performance, metrics) ==
    LET current_quality == DictGet(metrics, "current_quality", "480p")
        allowed_qualities == tier_config.allowed_qualities
        last == Len(allowed_qualities)
    IN  IF performance.score > 8000 /\ current_quality # allowed_qualities[last]
        THEN IF ~InList(current_quality, allowed_qualities) THEN ValueError
             ELSE LET current_index == ListIndex(allowed_qualities, current_quality)
                  IN  IF current_index < last
                      THEN allowed_qualities[current_index + 1]
                      ELSE current_quality
        ELSE IF performance.score < 6000 /\ current_quality # allowed_qualities[1]
        THEN IF ~InList(current_quality, allowed_qualities) THEN ValueError
             ELSE LET current_index == ListIndex(allowed_qualities, current_quality)
                  IN  IF current_index > 1
                      THEN allowed_qualities[current_index - 1]
                      ELSE current_quality
        ELSE current_quality

(***************************************************************************)
(* Network condition estimator and get_quality_config                      *)
(***************************************************************************)
\* thresholds in hundredths: 0.3 is 30
get_buffer_threshold(tier) ==
    CASE tier = "bronze" -> 30
      [] tier = "silver" -> 20
      [] tier = "gold" -> 15
      [] tier = "platinum" -> 10
      [] OTHER -> 30

get_quality_switch_threshold(tier) ==
    CASE tier = "bronze" -> 40
      [] tier = "silver" -> 30
      [] tier = "gold" -> 20
      [] tier = "platinum" -> 15
      [] OTHER -> 40

\* the order of the sort keys STREAM#<stream_id>#<timestamp>: by stream_id,
\* then by timestamp
StreamRank(stream_id) == IF stream_id = "s1" THEN 1 ELSE 2

SortKeyBefore(k1, k2) ==
    \/ StreamRank(k1[1]) < StreamRank(k2[1])
    \/ (k1[1] = k2[1] /\ k1[2] < k2[2])

\* Limit of the query of get_user_network_conditions
QueryLimit == 10

\* the query with ScanIndexForward=False and Limit: the QueryLimit items
\* with the greatest sort keys, that is, the items with fewer than
\* QueryLimit items after them
QueryWindow(table) ==
    {k \in DOMAIN table :
        Cardinality({j \in DOMAIN table : SortKeyBefore(k, j)}) < QueryLimit}

\* the element of a set of one element; an expression bound through such
\* a set is evaluated once
Once(S) == CHOOSE r \in S : TRUE

RECURSIVE SumOver(_, _, _)
SumOver(table, keys, field) ==
    IF keys = {} THEN 0
    ELSE Once({table[k][field] + SumOver(table, keys \ {k}, field) :
                   k \in {CHOOSE x \in keys : TRUE}})

\* the items of the query in the order the store returns them: by
\* descending sort key
RECURSIVE QueryItems(_)
QueryItems(keys) ==
    IF keys = {} THEN <<>>
    ELSE Once({<<last>> \o QueryItems(keys \ {last}) :
                   last \in {CHOOSE k \in keys :
                                 \A j \in keys \ {k} : SortKeyBefore(j, k)}})

(***************************************************************************)
(* Binary floating point. buffer_ratio values are Python floats (IEEE 754  *)
(* doubles) and their sum is rounded after every addition. A double that   *)
(* is 0 or lies in [2^-7, 8) is held exactly as a whole number of units of *)
(* 2^-59, written in four limbs of 16 bits, lowest limb first: every       *)
(* double of that range is a multiple of the unit.                         *)
(***************************************************************************)
BigZero == <<0, 0, 0, 0>>

\* the exact sum of two numbers; the carries go up the limbs
BigAdd(a, b) ==
    Once({LET s1 == x[1] + y[1]
              s2 == x[2] + y[2] + s1 \div 65536
              s3 == x[3] + y[3] + s2 \div 65536
              s4 == x[4] + y[4] + s3 \div 65536
          IN  <<s1 % 65536, s2 % 65536, s3 % 65536, s4>> :
              x \in {a}, y \in {b}})

BigLess(a, b) ==
    \E x \in {a}, y \in {b} :
        \/ x[4] < y[4]
        \/ x[4] = y[4] /\ x[3] < y[3]
        \/ x[4] = y[4] /\ x[3] = y[3] /\ x[2] < y[2]
        \/ x[4] = y[4] /\ x[3] = y[3] /\ x[2] = y[2] /\ x[1] < y[1]

\* the exact quotient and remainder of a number by a small whole number
BigDivSmall(a, n) ==
    Once({LET q4 == x[4] \div n
              r4 == x[4] % n
              q3 == (r4 * 65536 + x[3]) \div n
              r3 == (r4 * 65536 + x[3]) % n
              q2 == (r3 * 65536 + x[2]) \div n
              r2 == (r3 * 65536 + x[2]) % n
              q1 == (r2 * 65536 + x[1]) \div n
              r1 == (r2 * 65536 + x[1]) % n
          IN  [q |-> BigAdd(<<q1, q2, q3, 0>>, <<0, 0, 0, q4>>), r |-> r1] :
              x \in {a}})

\* the spacing of the doubles around a number, in units: a double has 53
\* significant bits, a number in [2^k, 2^(k+1)) units has the spacing
\* 2^(k-52); the highest limb holds the bits 48 and up
RECURSIVE UlpOfHigh(_)
UlpOfHigh(high) == IF high < 32 THEN 1 ELSE 2 * UlpOfHigh(high \div 2)

Ulp(a) == Once({UlpOfHigh(high) : high \in {a[4]}})

\* the double nearest to q + r/n, the even one of two that are equally near
RoundToDouble(q, r, n) ==
    Once({LET low == x[1] % ulp
              down == <<x[1] - low, x[2], x[3], x[4]>>
              up == BigAdd(down, <<ulp, 0, 0, 0>>)
              twice == 2 * (low * n + r)
              even == (down[1] \div ulp) % 2 = 0
          IN  IF twice < ulp * n THEN down
              ELSE IF twice > ulp * n THEN up
              ELSE IF even THEN down ELSE up :
              x \in {q}, ulp \in {Ulp(q)}})

FloatAdd(a, b) == RoundToDouble(BigAdd(a, b), 0, 1)

FloatDiv(a, n) ==
    Once({RoundToDouble(d.q, d.r, n) : d \in {BigDivSmall(a, n)}})

\* float() of the decimal text of a number of ten-thousandths: the double
\* nearest to ratio / 10000, that is, to ratio * 2^59 / 10000 units
ToDouble(ratio) == FloatDiv(<<0, 0, 0, ratio * 2048>>, 10000)

\* sum(buffer_ratios): the items are added from left to right, every
\* addition rounded to a double; the start value 0 adds exactly
RECURSIVE FloatSum(_, _)
FloatSum(values, k) ==
    IF k = 0 THEN BigZero
    ELSE Once({IF rest = BigZero THEN ToDouble(values[k])
               ELSE FloatAdd(rest, ToDouble(values[k])) :
                   rest \in {FloatSum(values, k - 1)}})

\* sum(buffer_ratios) of an interpreter that compensates the rounding
\* errors of the additions (CPython from 3.12 on): the double nearest to
\* the exact sum
RECURSIVE ExactSum(_, _)
ExactSum(values, k) ==
    IF k = 0 THEN BigZero
    ELSE Once({IF rest = BigZero THEN ToDouble(values[k])
               ELSE BigAdd(rest, ToDouble(values[k])) :
                   rest \in {ExactSum(values, k - 1)}})

CompensatedSum(values) == RoundToDouble(ExactSum(values, Len(values)), 0, 1)

\* the doubles of the literals 0.1 and 0.3
Tenth == ToDouble(1000)
ThreeTenths == ToDouble(3000)

\* 'stable' if avg_buffer_ratio < 0.1 else 'unstable' if avg_buffer_ratio >
\* 0.3 else 'moderate', on doubles
Stability(avg_buffer_ratio) ==
    Once({IF BigLess(avg, Tenth) THEN "stable"
          ELSE IF BigLess(ThreeTenths, avg) THEN "unstable"
          ELSE "moderate" :
              avg \in {avg_buffer_ratio}})

\* get_user_network_conditions for an interpreter whose sum() compensates
\* or does not. A failed query is caught and answered with the default
\* estimate. Every item holds bandwidth_estimate and buffer_ratio
\* (update_viewer_metrics writes both). The bandwidths are whole numbers
\* whose sums are exact; the two means returned are rounded down to whole
\* units, which changes no comparison of get_recommended_quality (its
\* thresholds are whole numbers). The stability is decided on the double
\* the code computes.
NetworkConditions(store_ok, compensated) ==
    IF ~store_ok
    THEN [bandwidth_estimate |-> 1000000, stability |-> "unknown"]
    ELSE Once({
        LET n == Cardinality(window)
        IN  IF n = 0
            THEN [bandwidth_estimate |-> 1000000, stability |-> "unknown"]
            ELSE Once({
                LET total_bandwidth == SumOver(samples, window, "bandwidth_estimate")
                    total_buffer == IF compensated
                                    THEN CompensatedSum(buffer_ratios)
                                    ELSE FloatSum(buffer_ratios, n)
                IN  [bandwidth_estimate |-> total_bandwidth \div n,
                     buffer_ratio |-> SumOver(samples, window, "buffer_ratio") \div n,
                     stability |-> Stability(FloatDiv(total_buffer, n))] :
                    buffer_ratios \in
                        {[k \in 1..n |-> samples[items[k]].buffer_ratio] :
                             items \in {QueryItems(window)}}}) :
            window \in {QueryWindow(samples)}})

\* the interpreter adds from left to right
get_user_network_conditions(store_ok) == NetworkConditions(store_ok, FALSE)

\* tier_config.get('priority_access', False)
PriorityAccess(tier_config) == DictGet(tier_config, "priority_access", FALSE)

\* the payload of get_quality_config; sessions_ok and network_ok tell
\* whether its two queries succeed
QualityConfig(tier, sessions_ok, network_ok) ==
    Once({
        LET tier_config == TierConfig(tier)
            can_start_new_stream ==
                Cardinality(current_sessions) < tier_config.concurrent_streams
            recommended_quality ==
                get_recommended_quality(tier_config, network_conditions)
        IN  [subscription_tier |-> tier,
             max_resolution |-> tier_config.max_resolution,
             max_bitrate |-> tier_config.max_bitrate,
             allowed_qualities |-> tier_config.allowed_qualities,
             concurrent_streams |-> [limit |-> tier_config.concurrent_streams,
                                     current |-> Cardinality(current_sessions),
                                     can_start_new |-> can_start_new_stream],
             recommended_quality |-> recommended_quality,
             priority_access |-> PriorityAccess(tier_config),
             adaptive_streaming |->
                 [enabled |-> TRUE,
                  buffer_threshold |-> get_buffer_threshold(tier),
                  quality_switch_threshold |-> get_quality_switch_threshold(tier)]] :
            current_sessions \in {get_user_streaming_sessions(sessions_ok)},
            network_conditions \in {get_user_network_conditions(network_ok)}})

\* a variant of get_quality_config: the lookup is recorded as a session
get_quality_config_Recording(sessions_ok, network_ok) ==
    /\ response' = create_response(200, QualityConfig(EventTier, sessions_ok, network_ok))
    /\ sessions' = record_stream_access("s1", "480p", EventTier, TRUE)
    /\ UNCHANGED <<subscription_tier, clock, inflight, samples, results, pending, fn>>

get_quality_config(sessions_ok, network_ok) ==
    /\ UNCHANGED <<subscription_tier, clock, sessions, inflight, samples, results,
                   pending, fn>>
    /\ response' = create_response(200, QualityConfig(EventTier, sessions_ok, network_ok))

(***************************************************************************)
(* optimize_quality_for_user                                               *)
(***************************************************************************)
\* the lookup of the user's tier: the code answers 'silver' for every user
get_user_subscription_tier == "silver"

\* buffer targets and switch thresholds in hundredths: 0.2 is 20
calculate_buffer_target(performance) ==
    IF performance.score < 6000 THEN 20
    ELSE IF performance.score > 8000 THEN 5 ELSE 10

calculate_switch_threshold(performance) ==
    IF performance.stability = "poor" THEN 40 ELSE 20

\* allowed[min(1, len(allowed) - 1)], counted from 1
determine_startup_quality(tier_config, performance) ==
    LET allowed == tier_config.allowed_qualities
    IN  IF performance.startup_health = "poor"
        THEN allowed[1]
        ELSE allowed[Min(1, Len(allowed) - 1) + 1]

\* the recommendations dict of lines 256-268
Recommendations(stream_id, current_metrics, tier_config) ==
    LET performance_analysis == analyze_streaming_performance(current_metrics)
        optimal_quality == determine_optimal_quality(tier_config,
                               performance_analysis, current_metrics)
    IN  [stream_id |-> stream_id,
         current_quality |-> DictGet(current_metrics, "current_quality", "480p"),
         recommended_quality |-> optimal_quality,
         performance_score |-> performance_analysis.score,
         optimizations |-> performance_analysis.recommendations,
         adaptive_settings |->
             [buffer_target |-> calculate_buffer_target(performance_analysis),
              quality_switch_threshold |->
                  calculate_switch_threshold(performance_analysis),
              startup_quality |->
                  determine_startup_quality(tier_config, performance_analysis)]]

\* store_optimization_results; a failed put_item is caught and only logged
store_optimization_results(recommendations, store_ok) ==
    IF store_ok
    THEN PutItem(results, clock,
                 [timestamp |-> clock, recommendations |-> recommendations,
                  ttl |-> clock + 86400 * 30])
    ELSE results

OptimizationFailedResponse ==
    create_response(500, [error |-> "Quality optimization failed"])

\* optimize_quality_for_user: the response it returns and the optimization
\* results it leaves; the ValueError of determine_optimal_quality is caught
\* by the handler of lines 277-282, before anything is stored
optimize_quality_for_user(stream_id, current_metrics, store_ok) ==
    LET subscription_tier_of_user == get_user_subscription_tier
        tier_config == TierConfig(subscription_tier_of_user)
        recommendations == Recommendations(stream_id, current_metrics, tier_config)
    IN  IF recommendations.recommended_quality = ValueError
        THEN [response |-> OptimizationFailedResponse, results |-> results]
        ELSE [response |-> create_response(200, recommendations),
              results |-> store_optimization_results(recommendations, store_ok)]

\* the optimize_quality action of lambda_handler
OptimizeQuality(stream_id, metrics_arg, store_ok) ==
    /\ LET out == optimize_quality_for_user(stream_id,
                      EventGetDict(metrics_arg, <<>>), store_ok)
       IN  /\ response' = out.response
           /\ results' = out.results
    /\ UNCHANGED <<subscription_tier, clock, sessions, inflight, samples, pending, fn>>

(***************************************************************************)
(* update_viewer_metrics                                                   *)
(***************************************************************************)
\* no update_viewer_metrics invocation is between its two store calls
NoFrame == [stream_id |-> "<none>"]

required_metrics == <<"buffer_ratio", "startup_time", "rebuffer_count", "quality_switches">>

\* the positions of the required metrics that the dict does not hold
MissingMetrics(metrics) ==
    {k \in DOMAIN required_metrics : required_metrics[k] \notin DOMAIN metrics}

\* the loop of lines 184-189 returns at the first missing metric
FirstMissing(metrics) ==
    required_metrics[CHOOSE k \in MissingMetrics(metrics) :
                         \A j \in MissingMetrics(metrics) : k <= j]

MissingMetricResponse(metric) ==
    create_response(400,
        [error |-> <<"Missing required metric: ", metric>>,
         required_metrics |-> required_metrics])

UpdateFailedResponse ==
    create_response(500, [error |-> "Failed to update viewer metrics"])

\* the item of lines 196-209, under the sort key STREAM#<stream_id>#<timestamp>
SampleKey(stream_id, now) == <<stream_id, now>>

SampleItem(stream_id, metrics, now) ==
    [stream_id |-> stream_id,
     timestamp |-> now,
     buffer_ratio |-> metrics.buffer_ratio,
     startup_time |-> metrics.startup_time,
     rebuffer_count |-> metrics.rebuffer_count,
     quality_switches |-> metrics.quality_switches,
     current_quality |-> DictGet(metrics, "current_quality", "480p"),
     bandwidth_estimate |-> DictGet(metrics, "bandwidth_estimate", 0),
     ttl |-> now + 86400 * 7]

\* a variant of UpdateMetricsStore: the sample is written before the
\* required metrics are validated
UpdateMetricsStore_WriteFirst(stream_id, metrics_arg, store_ok) ==
    /\ pending = NoFrame
    /\ LET metrics == EventGetDict(metrics_arg, <<>>)
           partial == [k \in Range(required_metrics) |-> DictGet(metrics, k, 0)]
       IN  IF MissingMetrics(metrics) # {}
           THEN /\ response' = MissingMetricResponse(FirstMissing(metrics))
                /\ samples' = PutItem(samples, SampleKey(stream_id, clock),
                                      SampleItem(stream_id, partial, clock))
                /\ UNCHANGED pending
           ELSE IF ~store_ok
           THEN /\ response' = UpdateFailedResponse
                /\ UNCHANGED <<samples, pending>>
           ELSE /\ samples' = PutItem(samples, SampleKey(stream_id, clock),
                                      SampleItem(stream_id, metrics, clock))
                /\ pending' = [stream_id |-> stream_id, metrics |-> metrics]
                /\ UNCHANGED response
    /\ UNCHANGED <<subscription_tier, clock, sessions, inflight, results, fn>>

\* lines 178-210: the validation of the required metrics and the put_item
\* of the sample; a failed put_item is caught by the handler of lines 227-232
UpdateMetricsStore(stream_id, metrics_arg, store_ok) ==
    /\ pending = NoFrame
    /\ UNCHANGED <<subscription_tier, clock, sessions, inflight, results, fn>>
    /\ LET metrics == EventGetDict(metrics_arg, <<>>)
       IN  IF MissingMetrics(metrics) # {}
           THEN /\ response' = MissingMetricResponse(FirstMissing(metrics))
                /\ UNCHANGED <<samples, pending>>
           ELSE IF ~store_ok
           THEN /\ response' = UpdateFailedResponse
                /\ UNCHANGED <<samples, pending>>
           ELSE /\ samples' = PutItem(samples, SampleKey(stream_id, clock),
                                      SampleItem(stream_id, metrics, clock))
                /\ pending' = [stream_id |-> stream_id, metrics |-> metrics]
                /\ UNCHANGED response

MetricsUpdatedResponse(metrics) ==
    create_response(200,
        [message |-> "Viewer metrics updated successfully",
         optimization_triggered |-> should_trigger_optimization(metrics)])

\* lines 212-225: the optimization, whose returned response is dropped, and
\* the answer
UpdateMetricsOptimize(store_ok) ==
    /\ pending # NoFrame
    /\ results' =
          IF should_trigger_optimization(pending.metrics)
          THEN optimize_quality_for_user(pending.stream_id, pending.metrics,
                                         store_ok).results
          ELSE results
    /\ response' = MetricsUpdatedResponse(pending.metrics)
    /\ pending' = NoFrame
    /\ UNCHANGED <<subscription_tier, clock, sessions, inflight, samples, fn>>

(***************************************************************************)
(* Environment: time and the store's time-to-live                          *)
(***************************************************************************)
Tick ==
    /\ \E t \in Instants : t > clock /\ clock' = t
    /\ UNCHANGED <<subscription_tier, sessions, inflight, samples, results, pending,
                   response, fn>>

\* the store deletes an item some time after its ttl has passed
ExpireSession ==
    /\ \E k \in DOMAIN sessions :
          /\ sessions[k].ttl < clock
          /\ sessions' = [j \in DOMAIN sessions \ {k} |-> sessions[j]]
    /\ UNCHANGED <<subscription_tier, clock, inflight, samples, results, pending,
                   response, fn>>

NoCall == [name |-> "none"]

Init ==
    /\ subscription_tier \in EventTiers
    /\ clock = 0
    /\ sessions = <<>>
    /\ inflight = EmptyBag
    /\ samples = <<>>
    /\ results = <<>>
    /\ pending = NoFrame
    /\ response = NoResponse
    /\ fn = NoCall

\* the frames an invocation can be in
Frames == {Frame(s, q) : s \in Streams, q \in {"480p", "720p", "1080p"}}

Check ==
    \E s \in Streams, ok \in BOOLEAN :
        \E q \in RequestedQualities(TierConfig(subscription_tier)) :
            ValidateCheck(s, q, ok)

Record == \E f \in Frames, ok \in BOOLEAN : ValidateRecord(f, ok)

\* Invocations overlap freely, any store call may fail, the store expires
\* sessions.
Next == Check \/ Record \/ Tick \/ ExpireSession

Spec == Init /\ [][Next]_vars

\* One invocation at a time, the store available, no session expiring.
SeqCheck ==
    /\ inflight = EmptyBag
    /\ \E s \in Streams :
          \E q \in RequestedQualities(TierConfig(subscription_tier)) :
              ValidateCheck(s, q, TRUE)

SeqRecord == \E f \in Frames : ValidateRecord(f, TRUE)

NextSeq == SeqCheck \/ SeqRecord \/ Tick

SpecSeq == Init /\ [][NextSeq]_vars

\* Invocations overlap freely, the store available, no session expiring.
RaceCheck ==
    \E s \in Streams :
        \E q \in RequestedQualities(TierConfig(subscription_tier)) :
            ValidateCheck(s, q, TRUE)

RaceRecord == \E f \in Frames : ValidateRecord(f, TRUE)

NextRace == RaceCheck \/ RaceRecord \/ Tick

SpecRace == Init /\ [][NextRace]_vars

(***************************************************************************)
(* Telemetry, optimization and configuration: the four actions of          *)
(* lambda_handler for one user, admissions one at a time, any call of the  *)
(* telemetry store failing or not.                                         *)
(***************************************************************************)
\* streams the client reports on
TelStreams == {"s1"}

\* metrics a client reports; buffer_ratio in 1/10000, startup_time in ms
GoodMetrics ==
    [buffer_ratio |-> 0, startup_time |-> 0, rebuffer_count |-> 0,
     quality_switches |-> 0, current_quality |-> "480p",
     bandwidth_estimate |-> 6000000]

\* score 100 - 25 - 20 - 20 = 35
PoorMetrics(current_quality) ==
    [buffer_ratio |-> 2500, startup_time |-> 6000, rebuffer_count |-> 4,
     quality_switches |-> 0, current_quality |-> current_quality,
     bandwidth_estimate |-> 6000000]

\* score 75, no current_quality and no bandwidth_estimate reported
FairMetrics ==
    [buffer_ratio |-> 2500, startup_time |-> 0, rebuffer_count |-> 0,
     quality_switches |-> 0]

\* score 100 - 25 - 20 = 55, playing the top rung of the silver ladder
StallingMetrics ==
    [buffer_ratio |-> 2500, startup_time |-> 0, rebuffer_count |-> 4,
     quality_switches |-> 0, current_quality |-> "720p"]

\* score 100 - 20 = 80, the highest score of metrics that trigger
RebufferingMetrics ==
    [buffer_ratio |-> 0, startup_time |-> 0, rebuffer_count |-> 4,
     quality_switches |-> 0, current_quality |-> "480p"]

\* a dict without one of its keys
Without(dict, key) == [k \in DOMAIN dict \ {key} |-> dict[k]]

\* the metrics of an update_viewer_metrics event: complete ones, ones that
\* lack a required metric, an empty dict, and AbsentDict for an event
\* without the key
TelMetrics ==
    {GoodMetrics, FairMetrics, PoorMetrics("1080p"), StallingMetrics,
     RebufferingMetrics}
        \cup {Without(PoorMetrics("1080p"), required_metrics[k]) :
                  k \in DOMAIN required_metrics}
        \cup {Without(Without(GoodMetrics, "startup_time"), "quality_switches")}
        \cup {<<>>, AbsentDict}

\* the current_metrics of an optimize_quality event
OptMetrics ==
    {GoodMetrics, PoorMetrics("720p"), PoorMetrics("1080p"), <<>>, AbsentDict}

\* the highest rung of a ladder
TopRung(tier_config) ==
    tier_config.allowed_qualities[Len(tier_config.allowed_qualities)]

\* qualities asked for at admission: the lowest rung, the highest rung of
\* the tier, and 720p, which bronze does not hold
AdmitQualities == {"480p", "720p", TopRung(TierConfig(EventTier))}

AdmitCheck ==
    /\ inflight = EmptyBag
    /\ \E s \in TelStreams, q \in AdmitQualities : ValidateCheck(s, q, TRUE)

AdmitRecord == \E f \in Frames : ValidateRecord(f, TRUE)

UpdateStore ==
    \E s \in TelStreams, m \in TelMetrics, ok \in BOOLEAN :
        UpdateMetricsStore(s, m, ok)

UpdateOptimize == \E ok \in BOOLEAN : UpdateMetricsOptimize(ok)

Optimize ==
    \E s \in TelStreams, m \in OptMetrics, ok \in BOOLEAN :
        OptimizeQuality(s, m, ok)

GetConfig == \E sessions_ok, network_ok \in BOOLEAN :
                 get_quality_config(sessions_ok, network_ok)

NextTel ==
    \/ AdmitCheck
    \/ AdmitRecord
    \/ UpdateStore
    \/ UpdateOptimize
    \/ Optimize
    \/ GetConfig

SpecTel == Init /\ [][NextTel]_vars

(***************************************************************************)
(* The decision functions on their own: each step evaluates one function   *)
(* on inputs drawn from the sets below, for the tier drawn by Init.        *)
(***************************************************************************)
\* performance scores, in hundredths: every whole score up to MaxScore and
\* the values next to the two thresholds
MaxScore == 100
Scores == {100 * k : k \in 0..MaxScore} \cup {5999, 6001, 7999, 8001}

\* current_quality values a client reports; <<>> is a dict without the key
CurrentQualityDicts ==
    {[current_quality |-> q] : q \in {"480p", "720p", "1080p", "4k"}} \cup {<<>>}

\* playback metrics: buffer_ratio in 1/10000, startup_time in milliseconds
BufferRatios == {-5000, 0, 999, 1500, 2000, 2001, 3000, 10000}
RebufferCounts == {0, 3, 4, 100}
StartupTimes == {0, 1, 2000, 5000, 5001, 100000}
QualitySwitches == {0, 2, 5, 100}
MetricsDicts ==
    [buffer_ratio : BufferRatios, rebuffer_count : RebufferCounts,
     startup_time : StartupTimes, quality_switches : QualitySwitches]
        \cup {<<>>}

\* network estimates: bandwidths around every inflated bitrate requirement
Bandwidths ==
    {0, 999999, 1000000, 6000000, 8000000}
        \cup UNION {{b * m * 10000 - 1, b * m * 10000} :
                        b \in {10, 25, 50}, m \in {11, 12, 15}}
Stabilities == {"stable", "moderate", "unstable", "unknown"}
NetworkDicts ==
    [bandwidth_estimate : Bandwidths, stability : Stabilities]
        \cup {[bandwidth_estimate |-> b] : b \in Bandwidths}
        \cup {[stability |-> st] : st \in Stabilities}
        \cup {<<>>}

EvalDetermineOptimalQuality ==
    /\ fn = NoCall
    /\ \E score \in Scores, metrics \in CurrentQualityDicts :
          fn' = [name |-> "determine_optimal_quality",
                 score |-> score, metrics |-> metrics,
                 result |-> determine_optimal_quality(
                                TierConfig(subscription_tier),
                                [score |-> score], metrics)]
    /\ UNCHANGED <<subscription_tier, clock, sessions, inflight, samples, results,
                   pending, response>>

EvalAnalyzePerformance ==
    /\ fn = NoCall
    /\ \E metrics \in MetricsDicts :
          fn' = [name |-> "analyze_streaming_performance", metrics |-> metrics,
                 result |-> analyze_streaming_performance(metrics)]
    /\ UNCHANGED <<subscription_tier, clock, sessions, inflight, samples, results,
                   pending, response>>

EvalShouldTrigger ==
    /\ fn = NoCall
    /\ \E metrics \in MetricsDicts :
          fn' = [name |-> "should_trigger_optimization", metrics |-> metrics,
                 result |-> should_trigger_optimization(metrics)]
    /\ UNCHANGED <<subscription_tier, clock, sessions, inflight, samples, results,
                   pending, response>>

EvalRecommendedQuality ==
    /\ fn = NoCall
    /\ \E network_conditions \in NetworkDicts :
          fn' = [name |-> "get_recommended_quality",
                 network_conditions |-> network_conditions,
                 result |-> get_recommended_quality(
                                TierConfig(subscription_tier), network_conditions)]
    /\ UNCHANGED <<subscription_tier, clock, sessions, inflight, samples, results,
                   pending, response>>

NextFn ==
    \/ EvalDetermineOptimalQuality
    \/ EvalAnalyzePerformance
    \/ EvalShouldTrigger
    \/ EvalRecommendedQuality

SpecFn == Init /\ [][NextFn]_vars

(***************************************************************************)
(* The network condition estimator over a telemetry history: the user has  *)
(* reported before, reports again and the estimator is evaluated.          *)
(***************************************************************************)
\* the last instant of the clock
MaxInstant == 12

\* the instants of the samples the user holds at the start
HistoryLengths == {0, 9, 10}

\* metrics with every required metric and the given buffer_ratio, in
\* 1/10000, and bandwidth estimate
Report(buffer_ratio, bandwidth_estimate) ==
    [buffer_ratio |-> buffer_ratio, startup_time |-> 0, rebuffer_count |-> 0,
     quality_switches |-> 0, bandwidth_estimate |-> bandwidth_estimate]

\* metrics the client reports: buffer_ratio 0 and 0.1
EstMetrics == {Report(0, 6000000), Report(1000, 2000001)}

\* metrics of the earlier reports: buffer_ratio 0.1, 0.3 and 0.6, the last
\* without a bandwidth estimate
HistoryMetrics ==
    {Report(1000, 2000001), Report(3000, 1000000),
     Without(Report(6000, 0), "bandwidth_estimate")}

\* the samples left by n reports of the same metrics for one stream, one
\* report a second from instant 1 on
History(stream_id, n, metrics) ==
    [k \in {SampleKey(stream_id, t) : t \in 1..n} |->
        SampleItem(stream_id, metrics, k[2])]

InitEst ==
    /\ subscription_tier = "silver"
    /\ clock = 11
    /\ sessions = <<>>
    /\ inflight = EmptyBag
    /\ \E s \in Streams, n \in HistoryLengths, m \in HistoryMetrics :
          samples = History(s, n, m)
    /\ results = <<>>
    /\ pending = NoFrame
    /\ response = NoResponse
    /\ fn = NoCall

EstReport ==
    /\ fn = NoCall
    /\ \E s \in Streams, m \in EstMetrics : UpdateMetricsStore(s, m, TRUE)

EstOptimize == fn = NoCall /\ UpdateMetricsOptimize(TRUE)

EstTick ==
    /\ fn = NoCall
    /\ clock < MaxInstant
    /\ clock' = clock + 1
    /\ UNCHANGED <<subscription_tier, sessions, inflight, samples, results, pending,
                   response, fn>>

\* get_user_network_conditions evaluated in the current state, by either
\* interpreter: the items its query returns and the estimate
EvalNetworkConditions ==
    /\ fn = NoCall
    /\ \E ok \in BOOLEAN, compensated \in BOOLEAN :
          fn' = [name |-> "get_user_network_conditions", store_ok |-> ok,
                 compensated |-> compensated,
                 items |-> IF ok THEN QueryWindow(samples) ELSE {},
                 result |-> NetworkConditions(ok, compensated)]
    /\ UNCHANGED <<subscription_tier, clock, sessions, inflight, samples, results,
                   pending, response>>

NextEst ==
    \/ EstReport
    \/ EstOptimize
    \/ EstTick
    \/ EvalNetworkConditions

SpecEst == InitEst /\ [][NextEst]_vars

(***************************************************************************)
(* A client in a feedback loop with optimize_quality: it reports the same  *)
(* playback metrics on every call and plays what the last answer           *)
(* recommended.                                                            *)
(***************************************************************************)
\* optimize_quality calls of one client, one an instant
MaxCalls == 4

\* playback metrics with scores 100, 81, 80, 79, 70, 61, 60, 59, 50, 49,
\* 40, 39 and 29
LoopMetrics ==
    [buffer_ratio : {0, 1900, 2000, 3000}, rebuffer_count : {0, 4},
     startup_time : {0, 2100}, quality_switches : {0}]

\* an optimize_quality call that answered without a recommendation
NoRecommendation == "<none>"

\* the client before its first call: the metrics it reports with the
\* quality it plays, if it reports one, and no answer yet
InitLoop ==
    /\ subscription_tier \in EventTiers
    /\ clock = 0
    /\ sessions = <<>>
    /\ inflight = EmptyBag
    /\ samples = <<>>
    /\ results = <<>>
    /\ pending = NoFrame
    /\ response = NoResponse
    /\ \E m \in LoopMetrics, q \in CurrentQualityDicts :
          fn = [name |-> "optimize_quality", current_metrics |-> q @@ m,
                recommended |-> <<>>]

\* one optimize_quality call with the client's metrics; the client adopts
\* the recommended quality of a 200 answer as its current_quality
LoopOptimize ==
    /\ Len(fn.recommended) = clock
    /\ LET s == CHOOSE stream_id \in TelStreams : TRUE
           out == optimize_quality_for_user(s, fn.current_metrics, TRUE)
           body == out.response.body
       IN  /\ response' = out.response
           /\ results' = out.results
           /\ fn' = IF out.response.statusCode = 200
                    THEN [fn EXCEPT
                             !.current_metrics =
                                 [current_quality |-> body.recommended_quality]
                                     @@ fn.current_metrics,
                             !.recommended =
                                 Append(@, body.recommended_quality)]
                    ELSE [fn EXCEPT
                             !.recommended = Append(@, NoRecommendation)]
    /\ UNCHANGED <<subscription_tier, clock, sessions, inflight, samples, pending>>

\* a second passes between two calls
LoopTick ==
    /\ Len(fn.recommended) = clock + 1
    /\ clock + 1 < MaxCalls
    /\ clock' = clock + 1
    /\ UNCHANGED <<subscription_tier, sessions, inflight, samples, results, pending,
                   response, fn>>

NextLoop == LoopOptimize \/ LoopTick

SpecLoop == InitLoop /\ [][NextLoop]_vars

(***************************************************************************)
(* Properties                                                              *)
(***************************************************************************)
SessionCount == Cardinality(DOMAIN sessions)

\* sessions whose 24 hours have not passed
Unexpired == {k \in DOMAIN sessions : sessions[k].ttl >= clock}

\* the limits and ladders as the specification states them
StatedLimit(tier) ==
    CASE tier = "silver" -> 2
      [] tier = "gold" -> 3
      [] tier = "platinum" -> 5
      [] OTHER -> 1

StatedLadder(tier) ==
    CASE tier = "silver" -> <<"480p", "720p">>
      [] tier = "gold" -> <<"480p", "720p", "1080p">>
      [] tier = "platinum" -> <<"480p", "720p", "1080p">>
      [] OTHER -> <<"480p">>

\* C1: with one invocation at a time, the store available and no session
\* expiring, the user never holds more session records than the tier's
\* concurrent_streams limit (bronze 1, silver 2, gold 3, platinum 5).
C1_SequentialAdmission == SessionCount <= StatedLimit(subscription_tier)

\* C1 witness: a platinum user holds five sessions and the sixth request
\* has been turned away.
C1_Witness ==
    /\ subscription_tier = "platinum"
    /\ SessionCount = 5
    /\ response.statusCode = 429

\* C2: a call with an allowed quality made while the user holds at least
\* concurrent_streams unexpired sessions is answered 429 with the current
\* count and the limit, current >= limit, and records no session.
C2_ConcurrencyEnforced ==
    [][\A s \in Streams, ok \in BOOLEAN :
         \A q \in RequestedQualities(TierConfig(subscription_tier)) :
           ( /\ InList(EventGet(q, "480p"), StatedLadder(subscription_tier))
             /\ Cardinality(Unexpired) >= StatedLimit(subscription_tier)
             /\ ValidateCheck(s, q, ok) )
           => ( /\ response'.statusCode = 429
                /\ response'.body.limit = StatedLimit(subscription_tier)
                /\ response'.body.current_sessions >= response'.body.limit
                /\ inflight' = inflight
                /\ sessions' = sessions )]_vars

\* C3: two invocations that have both read the session list while the user
\* holds limit-1 sessions are both granted, and the user ends with limit+1
\* sessions. The store is taken to be available at both writes.
C3_RaceExceedsByOne ==
    [][\A f \in BagToSet(inflight) :
         LET limit == StatedLimit(subscription_tier)
         IN  /\ ( /\ BagCardinality(inflight) = 2
                  /\ SessionCount = limit - 1
                  /\ ValidateRecord(f, TRUE) )
                => ( /\ response'.statusCode = 200
                     /\ Cardinality(DOMAIN sessions') = limit )
             /\ ( /\ BagCardinality(inflight) = 1
                  /\ SessionCount = limit
                  /\ ValidateRecord(f, TRUE) )
                => ( /\ response'.statusCode = 200
                     /\ Cardinality(DOMAIN sessions') = limit + 1 )]_vars

\* C4: a requested quality outside the tier's ladder is answered 403 with
\* the tier's allowed qualities and the tier, whatever sessions exist, and
\* records no session.
C4_QualityRejection ==
    [][\A s \in Streams, ok \in BOOLEAN :
         \A q \in RequestedQualities(TierConfig(subscription_tier)) :
           ( /\ ~InList(EventGet(q, "480p"), StatedLadder(subscription_tier))
             /\ ValidateCheck(s, q, ok) )
           => ( /\ response'.statusCode = 403
                /\ response'.body.allowed_qualities = StatedLadder(subscription_tier)
                /\ response'.body.subscription_tier = EventGet(subscription_tier, "bronze")
                /\ inflight' = inflight
                /\ sessions' = sessions )]_vars

\* C4 witness: a gold user above the concurrency limit is still answered
\* with the quality failure.
C4_Witness ==
    /\ subscription_tier = "gold"
    /\ SessionCount >= 3
    /\ response.statusCode = 403
    /\ response.body.requested_quality = "4k"

\* the position of a quality in a ladder that holds it
Rung(ladder, quality) == CHOOSE k \in DOMAIN ladder : ladder[k] = quality

\* the quality the client reports, 480p when it reports none
ReportedQuality(metrics) == DictGet(metrics, "current_quality", "480p")

\* C5: for every tier ladder and every current_quality, a score within
\* [60, 80], endpoints included, leaves the quality unchanged.
C5_Hysteresis ==
    (fn.name = "determine_optimal_quality" /\ fn.score >= 6000 /\ fn.score <= 8000)
        => fn.result = ReportedQuality(fn.metrics)

\* C5 witness: a gold user at 720p, where both directions are open, scores
\* exactly 80 and stays at 720p.
C5_Witness ==
    /\ fn.name = "determine_optimal_quality"
    /\ subscription_tier = "gold"
    /\ fn.score = 8000
    /\ fn.metrics = [current_quality |-> "720p"]
    /\ fn.result = "720p"

\* C6: for a current_quality of the tier's ladder the result is the next
\* higher rung when score > 80 below the top, the next lower rung when
\* score < 60 above the bottom, and the current quality otherwise; it is in
\* the ladder and at most one rung away.
C6_SingleRung ==
    LET ladder == StatedLadder(subscription_tier)
    IN  ( /\ fn.name = "determine_optimal_quality"
          /\ InList(ReportedQuality(fn.metrics), ladder) )
        => LET current == ReportedQuality(fn.metrics)
               k == Rung(ladder, current)
           IN  /\ fn.result =
                    IF fn.score > 8000 /\ k < Len(ladder) THEN ladder[k + 1]
                    ELSE IF fn.score < 6000 /\ k > 1 THEN ladder[k - 1]
                    ELSE current
               /\ InList(fn.result, ladder)
               /\ Rung(ladder, fn.result) \in {k - 1, k, k + 1}

\* C6 witness: a gold user at 1080p with a score just below 60 is moved to
\* 720p.
C6_Witness ==
    /\ fn.name = "determine_optimal_quality"
    /\ subscription_tier = "gold"
    /\ fn.score = 5999
    /\ fn.metrics = [current_quality |-> "1080p"]
    /\ fn.result = "720p"

\* C7: optimization is triggered exactly when buffer_ratio > 0.2 or
\* rebuffer_count > 3 or startup_time > 5000; 0.2, 3 and 5000 on their own
\* do not trigger, 0.2001, 4 and 5001 on their own do.
C7_TriggerBoundary ==
    fn.name = "should_trigger_optimization"
        => LET b == DictGet(fn.metrics, "buffer_ratio", 0)
               r == DictGet(fn.metrics, "rebuffer_count", 0)
               t == DictGet(fn.metrics, "startup_time", 0)
           IN  /\ fn.result = (b > 2000 \/ r > 3 \/ t > 5000)
               /\ (<<b, r, t>> \in {<<2000, 0, 0>>, <<0, 3, 0>>, <<0, 0, 5000>>}
                      => fn.result = FALSE)
               /\ (<<b, r, t>> \in {<<2001, 0, 0>>, <<0, 4, 0>>, <<0, 0, 5001>>}
                      => fn.result = TRUE)

\* C7 witness: a buffer_ratio of 0.2001 alone has triggered.
C7_Witness ==
    /\ fn.name = "should_trigger_optimization"
    /\ fn.metrics # <<>>
    /\ fn.metrics.buffer_ratio = 2001
    /\ fn.metrics.rebuffer_count = 0
    /\ fn.metrics.startup_time = 0
    /\ fn.result = TRUE

ExtremeMetrics ==
    [buffer_ratio |-> 10000, rebuffer_count |-> 100,
     startup_time |-> 100000, quality_switches |-> 100]

\* C8 as stated: the extreme metrics set scores 0.
C8_ExtremeScoreZero ==
    (fn.name = "analyze_streaming_performance" /\ fn.metrics = ExtremeMetrics)
        => fn.result.score = 0

\* C8 as amended: the extreme metrics set scores 20, the four capped
\* penalties taken off 100, and never a negative score.
C8_ExtremeScoreTwenty ==
    (fn.name = "analyze_streaming_performance" /\ fn.metrics = ExtremeMetrics)
        => (fn.result.score = 2000 /\ fn.result.score >= 0)

\* C8 witness: the extreme metrics set has been analysed.
C8_Witness ==
    /\ fn.name = "analyze_streaming_performance"
    /\ fn.metrics = ExtremeMetrics

\* C9: for non-negative metrics the score is 100 - min(buffer_ratio*100, 30)
\* - min(rebuffer_count*5, 20) - min(startup_time/100, 20)
\* - min(quality_switches*2, 10), and lies within [0, 100].
C9_ScoreFormula ==
    LET b == DictGet(fn.metrics, "buffer_ratio", 0)
        r == DictGet(fn.metrics, "rebuffer_count", 0)
        t == DictGet(fn.metrics, "startup_time", 0)
        q == DictGet(fn.metrics, "quality_switches", 0)
    IN  ( /\ fn.name = "analyze_streaming_performance"
          /\ b >= 0 /\ r >= 0 /\ t >= 0 /\ q >= 0 )
        => /\ fn.result.score =
                10000 - Min(b, 3000) - Min(r * 500, 2000)
                      - Min(t, 2000) - Min(q * 200, 1000)
           /\ fn.result.score >= 0
           /\ fn.result.score <= 10000

\* C9 witness: buffer_ratio 0.15, 3 rebuffers, 1 ms startup and 2 switches
\* score 100 - 15 - 15 - 0.01 - 4 = 65.99.
C9_Witness ==
    /\ fn.name = "analyze_streaming_performance"
    /\ fn.metrics = [buffer_ratio |-> 1500, rebuffer_count |-> 3,
                     startup_time |-> 1, quality_switches |-> 2]
    /\ fn.result.score = 6599

\* required bitrates and stability multipliers (in tenths) as stated
StatedBitrate(quality) ==
    CASE quality = "480p" -> 1000000
      [] quality = "720p" -> 2500000
      [] quality = "1080p" -> 5000000

StatedMultiplier(stability) ==
    CASE stability = "unstable" -> 15
      [] stability = "moderate" -> 12
      [] OTHER -> 11

\* C10: the recommendation is the highest rung of the tier's ladder whose
\* bitrate times the stability multiplier is within the estimated
\* bandwidth, the lowest rung when none is; it is always a rung of the
\* ladder.
C10_Recommendation ==
    fn.name = "get_recommended_quality"
        => LET ladder == StatedLadder(subscription_tier)
               bandwidth == DictGet(fn.network_conditions, "bandwidth_estimate", 1000000)
               stability == DictGet(fn.network_conditions, "stability", "unknown")
               fits == {k \in DOMAIN ladder :
                           StatedBitrate(ladder[k]) * StatedMultiplier(stability)
                               <= bandwidth * 10}
           IN  /\ InList(fn.result, ladder)
               /\ fits = {} => fn.result = ladder[1]
               /\ fits # {} => /\ Rung(ladder, fn.result) \in fits
                               /\ \A k \in fits : k <= Rung(ladder, fn.result)

\* C10 witness: gold with 6,000,000 bps on a stable network is given 1080p.
C10_Witness ==
    /\ fn.name = "get_recommended_quality"
    /\ subscription_tier = "gold"
    /\ fn.network_conditions = [bandwidth_estimate |-> 6000000, stability |-> "stable"]
    /\ fn.result = "1080p"

\* a response that carries the payload of get_quality_config
IsConfig(r) == r.statusCode = 200 /\ "concurrent_streams" \in DOMAIN r.body

\* a response that carries the recommendations of optimize_quality_for_user
IsRecommendation(r) == r.statusCode = 200 /\ "recommended_quality" \in DOMAIN r.body
                                          /\ "adaptive_settings" \in DOMAIN r.body

\* the score of a metrics dict, in hundredths
ScoreOf(metrics) == analyze_streaming_performance(metrics).score

\* C11: once a gold user is admitted at 1080p, the optimization run for an
\* update_viewer_metrics call whose metrics trigger it, score below 60 and
\* report current_quality 1080p returns 720p as the recommended quality.
C11_GoldReoptimization ==
    ( /\ subscription_tier = "gold"
      /\ \E k \in DOMAIN sessions : sessions[k].quality = "1080p"
      /\ pending # NoFrame
      /\ should_trigger_optimization(pending.metrics)
      /\ ScoreOf(pending.metrics) < 6000
      /\ ReportedQuality(pending.metrics) = "1080p" )
    => LET returned == optimize_quality_for_user(pending.stream_id,
                           pending.metrics, TRUE).response
       IN  /\ IsRecommendation(returned)
           /\ returned.body.recommended_quality = "720p"

\* the decision of validate_stream_access taken in a step
ObservedDecision ==
    IF inflight' # inflight THEN "grant"
    ELSE IF response'.statusCode = 403 THEN "403"
    ELSE IF response'.statusCode = 429 THEN "429"
    ELSE "error"

\* the decision validate_stream_access takes for a bronze user in this state
BronzeDecision(quality, store_ok) ==
    IF ~QualityAllowed(quality, TierConfig("bronze")) THEN "403"
    ELSE IF LimitReached(get_user_streaming_sessions(store_ok), TierConfig("bronze"))
    THEN "429"
    ELSE "grant"

\* C12: for a tier that is unknown or missing, get_quality_config answers
\* 200 with the bronze entitlements (max 480p, limit 1) and otherwise the
\* payload of bronze, validate_stream_access takes the decision it takes
\* for bronze in the same state, and a grant carries the bronze session
\* parameters; no call fails.
C12_DefaultTierFallback ==
    [][subscription_tier \notin {"bronze", "silver", "gold", "platinum"} =>
         /\ \A sessions_ok, network_ok \in BOOLEAN :
              get_quality_config(sessions_ok, network_ok)
              => /\ response'.statusCode = 200
                 /\ response'.body.max_resolution = "480p"
                 /\ response'.body.concurrent_streams.limit = 1
                 /\ Without(response'.body, "subscription_tier")
                      = Without(QualityConfig("bronze", sessions_ok, network_ok),
                                "subscription_tier")
         /\ \A s \in TelStreams, q \in {"480p", "720p", "1080p"} :
              ValidateCheck(s, q, TRUE)
              => ObservedDecision = BronzeDecision(q, TRUE)
         /\ \A f \in Frames :
              ValidateRecord(f, TRUE)
              => /\ response'.statusCode = 200
                 /\ response'.body.session_info
                      = [max_duration |-> get_max_session_duration("bronze"),
                         buffer_size |-> get_buffer_size("bronze"),
                         adaptive_enabled |-> TRUE]]_vars

\* C12 witness: a user with an unknown tier holds one session and is denied
\* the second one with the bronze limit.
C12_Witness ==
    /\ subscription_tier = "vip"
    /\ SessionCount = 1
    /\ response.statusCode = 429
    /\ response.body.limit = 1

\* C13: get_quality_config leaves the sessions, the telemetry samples and
\* the optimization results as they are, answers 200, and a second call
\* with the same arguments in the state it leaves returns the same payload.
C13_ConfigReadOnly ==
    [][\A sessions_ok, network_ok \in BOOLEAN :
         get_quality_config(sessions_ok, network_ok)
         => /\ sessions' = sessions
            /\ samples' = samples
            /\ results' = results
            /\ response'.statusCode = 200
            /\ response'.body = QualityConfig(EventTier, sessions_ok, network_ok)']_vars

\* C13 witness: a configuration has been answered to a user who holds a
\* session, a telemetry sample and an optimization result.
C13_Witness ==
    /\ IsConfig(response)
    /\ response.body.concurrent_streams.current = 1
    /\ sessions # <<>>
    /\ samples # <<>>
    /\ results # <<>>

\* the required metrics as the specification names them
StatedRequired == {"buffer_ratio", "startup_time", "rebuffer_count", "quality_switches"}

\* C14: an update_viewer_metrics call whose metrics lack a required metric
\* is answered 400 naming a metric that is absent, writes no telemetry
\* sample, runs no optimization and writes no optimization result.
C14_MissingMetricRejected ==
    [][\A s \in TelStreams, m \in TelMetrics, ok \in BOOLEAN :
         LET metrics == EventGetDict(m, <<>>)
         IN  ( /\ StatedRequired \ DOMAIN metrics # {}
               /\ UpdateMetricsStore(s, m, ok) )
             => /\ response'.statusCode = 400
                /\ response'.body.error[2] \in StatedRequired \ DOMAIN metrics
                /\ samples' = samples
                /\ results' = results
                /\ pending' = NoFrame]_vars

\* C14 witness: a call without rebuffer_count has been turned away while
\* the user has a sample stored.
C14_Witness ==
    /\ response.statusCode = 400
    /\ response.body.error[2] = "rebuffer_count"
    /\ samples # <<>>

\* C15: update_viewer_metrics with all four required metrics persists its
\* sample and answers optimization_triggered = should_trigger(metrics); when
\* that holds, the optimization runs after the sample write and the
\* response carries the optimization's result besides the flag.
C15_TelemetryDrivenOptimization ==
    [][/\ \A s \in TelStreams, m \in TelMetrics :
            ( /\ StatedRequired \subseteq DOMAIN EventGetDict(m, <<>>)
              /\ UpdateMetricsStore(s, m, TRUE) )
            => /\ SampleKey(s, clock) \in DOMAIN samples'
               /\ samples'[SampleKey(s, clock)].buffer_ratio = m.buffer_ratio
       /\ \A ok \in BOOLEAN :
            UpdateMetricsOptimize(ok)
            => LET metrics == pending.metrics
                   triggered == \/ metrics.buffer_ratio > 2000
                                \/ metrics.rebuffer_count > 3
                                \/ metrics.startup_time > 5000
               IN  /\ response'.statusCode = 200
                   /\ response'.body.optimization_triggered = triggered
                   /\ \E k \in DOMAIN samples : k[1] = pending.stream_id
                   /\ triggered =>
                        DOMAIN response'.body \ {"message", "optimization_triggered"} # {}
      ]_vars

\* C16: when the read of the active sessions fails during
\* validate_stream_access, the call answers with an error and grants
\* nothing.
C16_ReadFailureSurfaced ==
    [][\A s \in Streams :
         \A q \in RequestedQualities(TierConfig(subscription_tier)) :
           ( /\ InList(EventGet(q, "480p"), StatedLadder(subscription_tier))
             /\ ValidateCheck(s, q, FALSE) )
           => /\ response'.statusCode >= 500
              /\ inflight' = inflight]_vars

\* C17: a validate_stream_access call that answers access_granted has its
\* session in the registry; when the session write fails the call does not
\* answer a grant.
C17_GrantedImpliesTracked ==
    [][\A f \in Frames, ok \in BOOLEAN :
         ( /\ ValidateRecord(f, ok)
           /\ response'.statusCode = 200
           /\ response'.body.access_granted )
         => /\ SessionId(f.stream_id, clock) \in DOMAIN sessions'
            /\ sessions'[SessionId(f.stream_id, clock)].stream_id = f.stream_id
            /\ ok]_vars

\* the recommendation derived from the default estimate
DefaultRecommendation(tier) ==
    get_recommended_quality(TierConfig(tier),
        [bandwidth_estimate |-> 1000000, stability |-> "unknown"])

\* C18: a get_quality_config call during which the session query fails does
\* not answer 200 with a session count of zero, and one during which the
\* telemetry query fails does not answer 200 with the default
\* recommendation.
C18_FaultNotSwallowed ==
    [][\A sessions_ok, network_ok \in BOOLEAN :
         get_quality_config(sessions_ok, network_ok)
         => /\ ~sessions_ok =>
                 ~(IsConfig(response') /\ response'.body.concurrent_streams.current = 0)
            /\ ~network_ok =>
                 ~(IsConfig(response')
                   /\ response'.body.recommended_quality
                        = DefaultRecommendation(EventTier))]_vars

\* the bitrate of a rung is below the bitrate of every later rung
StrictlyAscending(ladder) ==
    \A i, j \in DOMAIN ladder :
        i < j => quality_bitrates(ladder[i]) < quality_bitrates(ladder[j])

IsPrefix(short, long) ==
    Len(short) <= Len(long) /\ SubSeq(long, 1, Len(short)) = short

\* C19: each of the four ladders is strictly ascending by bitrate, each is
\* a prefix of the next tier's, max_resolution is the last rung, and every
\* response that carries a ladder carries the one of the table.
C19_MonotonicLadder ==
    /\ \A t \in {"bronze", "silver", "gold", "platinum"} :
          /\ t \in DOMAIN QUALITY_TIERS
          /\ QUALITY_TIERS[t].allowed_qualities # <<>>
          /\ StrictlyAscending(QUALITY_TIERS[t].allowed_qualities)
          /\ QUALITY_TIERS[t].max_resolution
               = QUALITY_TIERS[t].allowed_qualities[Len(QUALITY_TIERS[t].allowed_qualities)]
    /\ IsPrefix(QUALITY_TIERS["bronze"].allowed_qualities,
                QUALITY_TIERS["silver"].allowed_qualities)
    /\ IsPrefix(QUALITY_TIERS["silver"].allowed_qualities,
                QUALITY_TIERS["gold"].allowed_qualities)
    /\ IsPrefix(QUALITY_TIERS["gold"].allowed_qualities,
                QUALITY_TIERS["platinum"].allowed_qualities)
    /\ (response.statusCode \in {200, 403}
        /\ "allowed_qualities" \in DOMAIN response.body)
       => response.body.allowed_qualities = StatedLadder(subscription_tier)

\* C19 witness: every kind of call has been made and a platinum user is
\* answered a configuration with the platinum ladder.
C19_Witness ==
    /\ subscription_tier = "platinum"
    /\ IsConfig(response)
    /\ response.body.allowed_qualities = <<"480p", "720p", "1080p">>
    /\ sessions # <<>>
    /\ samples # <<>>
    /\ results # <<>>

\* C20: the recommended_quality and the startup_quality returned by
\* optimize_quality_for_user are rungs of the ladder of the user's own
\* subscription tier.
C20_OptimizationWithinTier ==
    [][\A s \in TelStreams, m \in OptMetrics, ok \in BOOLEAN :
         ( /\ subscription_tier \in {"bronze", "silver", "gold", "platinum"}
           /\ OptimizeQuality(s, m, ok)
           /\ IsRecommendation(response') )
         => /\ InList(response'.body.recommended_quality,
                      StatedLadder(subscription_tier))
            /\ InList(response'.body.adaptive_settings.startup_quality,
                      StatedLadder(subscription_tier))]_vars

\* C21: with the store available, every granted validate_stream_access call
\* raises the number of the user's session records by exactly one and
\* leaves every record that existed as it was, also when two grants for the
\* same stream_id fall in the same clock second.
C21_OneSessionPerGrant ==
    [][\A f \in Frames :
         ( /\ ValidateRecord(f, TRUE)
           /\ response'.statusCode = 200
           /\ response'.body.access_granted )
         => /\ Cardinality(DOMAIN sessions') = SessionCount + 1
            /\ \A k \in DOMAIN sessions :
                 k \in DOMAIN sessions' /\ sessions'[k] = sessions[k]]_vars

\* the optimization results hold one record more, written at this instant
\* for the reported quality, and every other record is as it was
OneResultAppended(metrics) ==
    /\ clock \in DOMAIN results'
    /\ results'[clock].recommendations.current_quality = ReportedQuality(metrics)
    /\ \A k \in DOMAIN results \ {clock} :
         k \in DOMAIN results' /\ results'[k] = results[k]
    /\ DOMAIN results' \subseteq DOMAIN results \cup {clock}
    /\ clock \notin DOMAIN results
         => Cardinality(DOMAIN results') = Cardinality(DOMAIN results) + 1

\* C22: with the store available, every invocation of
\* optimize_quality_for_user, through the optimize_quality action or
\* triggered from update_viewer_metrics, and for every current_quality
\* reported, appends exactly one optimization result and leaves sessions
\* and telemetry samples as they are.
C22_OneResultPerOptimization ==
    [][/\ \A s \in TelStreams, m \in OptMetrics :
            OptimizeQuality(s, m, TRUE)
            => /\ OneResultAppended(EventGetDict(m, <<>>))
               /\ sessions' = sessions
               /\ samples' = samples
       /\ ( /\ UpdateMetricsOptimize(TRUE)
            /\ should_trigger_optimization(pending.metrics) )
          => /\ OneResultAppended(pending.metrics)
             /\ sessions' = sessions
             /\ samples' = samples]_vars

\* C23: the items get_user_network_conditions averages over are the 10
\* most recent samples of the user by timestamp (all of them when there are
\* fewer), whatever their stream_ids: no sample left out is newer than one
\* taken.
C23_MostRecentWindow ==
    (fn.name = "get_user_network_conditions" /\ fn.store_ok)
    => /\ Cardinality(fn.items) = Min(10, Cardinality(DOMAIN samples))
       /\ \A k \in fn.items, j \in DOMAIN samples \ fn.items :
            samples[j].timestamp <= samples[k].timestamp

\* C24: with no stored samples the estimate is 1,000,000 bps and stability
\* unknown; otherwise bandwidth and buffer_ratio are the arithmetic means
\* over the items of the query (here rounded down to whole units), and the
\* stability is stable when the mean buffer_ratio is below 0.10, unstable
\* when it is above 0.30 and moderate otherwise, so that a mean of exactly
\* 0.10 or exactly 0.30 is moderate.
C24_EstimatorOutput ==
    (fn.name = "get_user_network_conditions" /\ fn.store_ok)
    => IF DOMAIN samples = {}
       THEN fn.result = [bandwidth_estimate |-> 1000000, stability |-> "unknown"]
       ELSE LET n == Cardinality(fn.items)
                total_bandwidth == SumOver(samples, fn.items, "bandwidth_estimate")
                total_buffer == SumOver(samples, fn.items, "buffer_ratio")
            IN  /\ fn.result.bandwidth_estimate = total_bandwidth \div n
                /\ fn.result.buffer_ratio = total_buffer \div n
                /\ fn.result.stability =
                       IF total_buffer < 1000 * n THEN "stable"
                       ELSE IF total_buffer > 3000 * n THEN "unstable"
                       ELSE "moderate"

\* C25: a session counts toward the limit only until 24 hours after its
\* start: with the store available, a request for an allowed quality reads
\* no session whose expiry has passed, is answered 429 while the user holds
\* at least limit sessions that have not expired, and is granted when the
\* user holds fewer, the others having expired.
C25_ExpiredSessionsFreeSlots ==
    [][\A s \in Streams :
         \A q \in RequestedQualities(TierConfig(subscription_tier)) :
           ( /\ InList(EventGet(q, "480p"), StatedLadder(subscription_tier))
             /\ ValidateCheck(s, q, TRUE) )
           => /\ \A item \in get_user_streaming_sessions(TRUE) :
                   sessions[item.session_id].ttl >= clock
              /\ Cardinality(Unexpired) >= StatedLimit(subscription_tier)
                   => (response'.statusCode = 429 /\ inflight' = inflight)
              /\ Cardinality(Unexpired) < StatedLimit(subscription_tier)
                   => inflight' # inflight]_vars

\* C26: whatever the number of overlapping validate_stream_access
\* invocations and their interleaving, the user never holds more session
\* records that have not expired than the tier's limit plus one.
C26_BoundedOvershoot ==
    Cardinality(Unexpired) <= StatedLimit(subscription_tier) + 1

\* the ladder optimize_quality_for_user works on
OptimizationLadder == TierConfig(get_user_subscription_tier).allowed_qualities

\* qualities by resolution
Resolution(quality) ==
    CASE quality = "480p" -> 1 [] quality = "720p" -> 2
      [] quality = "1080p" -> 3 [] OTHER -> 4

\* C27: for a client that adopts every recommendation as its next
\* current_quality and reports the same score on every call, the
\* recommended qualities never rise after falling nor fall after rising, and
\* from the optimization numbered ladder length minus one on (from the
\* quality the client started with, when that is zero) every optimization
\* recommends the same quality.
C27_NoOscillation ==
    fn.name = "optimize_quality" =>
        LET recommended == fn.recommended
            calls == Len(recommended)
            answered == {k \in 1..calls : recommended[k] # NoRecommendation}
            settle == Len(OptimizationLadder) - 1
        IN  /\ \/ \A i, j \in answered :
                     i < j => Resolution(recommended[i]) <= Resolution(recommended[j])
               \/ \A i, j \in answered :
                     i < j => Resolution(recommended[i]) >= Resolution(recommended[j])
            /\ \A k \in 1..calls :
                   k > settle =>
                       /\ k \in answered
                       /\ settle > 0 => recommended[k] = recommended[settle]

\* none of the playback metrics is negative
NonNegative(metrics) ==
    \A k \in Range(required_metrics) : DictGet(metrics, k, 0) >= 0

\* the recommended quality is the current one or the rung below it
CurrentOrOneLower(recommended, current) ==
    \/ recommended = current
    \/ /\ InList(recommended, OptimizationLadder)
       /\ InList(current, OptimizationLadder)
       /\ Rung(OptimizationLadder, recommended)
              = Rung(OptimizationLadder, current) - 1

\* C28: when update_viewer_metrics triggers the optimization for metrics
\* none of which is negative, the score of these metrics is at most 80 and
\* what the optimization recommends and stores is the current quality or one
\* rung lower, never a higher rung.
C28_TriggeredNeverStepsUp ==
    [][\A ok \in BOOLEAN :
           ( /\ UpdateMetricsOptimize(ok)
             /\ should_trigger_optimization(pending.metrics)
             /\ NonNegative(pending.metrics) )
           => LET metrics == pending.metrics
                  current == ReportedQuality(metrics)
                  answer == optimize_quality_for_user(pending.stream_id,
                                metrics, ok).response
              IN  /\ ScoreOf(metrics) <= 8000
                  /\ answer.statusCode = 200 =>
                         CurrentOrOneLower(answer.body.recommended_quality, current)
                  /\ results' # results =>
                         CurrentOrOneLower(
                             results'[clock].recommendations.recommended_quality,
                             current)
      ]_vars

\* a triggered optimization has stored a recommendation one rung down
C28_Witness ==
    /\ response.statusCode = 200
    /\ "optimization_triggered" \in DOMAIN response.body
    /\ response.body.optimization_triggered
    /\ clock \in DOMAIN results
    /\ results[clock].recommendations.performance_score = 5500
    /\ results[clock].recommendations.current_quality = "720p"
    /\ results[clock].recommendations.recommended_quality = "480p"

\* C29: whatever the score and the current_quality the client reports, a
\* rung of the ladder or not, optimize_quality_for_user answers 200 with a
\* recommended_quality that is a rung of the ladder it works on.
C29_OutOfLadderHandled ==
    [][LoopOptimize =>
           /\ response'.statusCode = 200
           /\ InList(response'.body.recommended_quality, OptimizationLadder)
      ]_vars

\* the tiers from the lowest to the highest
TierOrder == <<"bronze", "silver", "gold", "platinum">>

\* stabilities from the largest multiplier to the smallest; stable and
\* unknown, which is also what a missing stability counts as, are level
StabilityOrder(stability) ==
    CASE stability = "unstable" -> 1 [] stability = "moderate" -> 2 [] OTHER -> 3

\* C30: the recommendation of get_recommended_quality is not lowered by a
\* larger bandwidth estimate (same tier and stability), nor by a higher
\* tier (same network estimate), nor by a stability later in the order
\* unstable, moderate, stable or unknown (same tier and bandwidth).
C30_RecommendationMonotone ==
    (fn.name = "get_recommended_quality" /\ subscription_tier \in TierNames) =>
        LET conditions == fn.network_conditions
            stability == DictGet(conditions, "stability", "unknown")
            bandwidth == DictGet(conditions, "bandwidth_estimate", 1000000)
            tier_config == TierConfig(subscription_tier)
        IN  /\ \A b \in Bandwidths :
                   b >= bandwidth =>
                       Resolution(get_recommended_quality(tier_config,
                           [bandwidth_estimate |-> b, stability |-> stability]))
                           >= Resolution(fn.result)
            /\ \A i, j \in DOMAIN TierOrder :
                   (TierOrder[i] = subscription_tier /\ i <= j) =>
                       Resolution(get_recommended_quality(
                           TierConfig(TierOrder[j]), conditions))
                           >= Resolution(fn.result)
            /\ \A st \in Stabilities :
                   StabilityOrder(st) >= StabilityOrder(stability) =>
                       Resolution(get_recommended_quality(tier_config,
                           [bandwidth_estimate |-> bandwidth, stability |-> st]))
                           >= Resolution(fn.result)

\* silver at 3 Mbps and moderate stability is recommended 720p, where
\* a lower bandwidth, bronze and unstable all give 480p
C30_Witness ==
    /\ fn.name = "get_recommended_quality"
    /\ subscription_tier = "silver"
    /\ fn.network_conditions =
           [bandwidth_estimate |-> 3000000, stability |-> "moderate"]
    /\ fn.result = "720p"
    /\ get_recommended_quality(TierConfig("silver"),
           [bandwidth_estimate |-> 2999999, stability |-> "moderate"]) = "480p"
    /\ get_recommended_quality(TierConfig("bronze"), fn.network_conditions) = "480p"
    /\ get_recommended_quality(TierConfig("silver"),
           [bandwidth_estimate |-> 3000000, stability |-> "unstable"]) = "480p"

====
